---- MODULE Spec2Model ----
(***************************************************************************)
(* Model of src/manifest.rs of cargo-deb: asset construction, asset rule   *)
(* expansion, manifest synthesis (Cargo::to_config), dependency            *)
(* aggregation (Config::get_dependencies) and the architecture mapper.     *)
(*                                                                         *)
(* Strings and paths are sequences of atoms.  An atom stands for one       *)
(* character ("/", ".", "*", ",", " ", "-") or for a run of ordinary       *)
(* characters ("usr", "release"); no two different atom sequences used in  *)
(* the model spell the same text.  Option<T> is a sequence of length 0     *)
(* (None) or 1 (Some).                                                     *)
(***************************************************************************)
EXTENDS Integers, Sequences, FiniteSets, TLC

VARIABLES
    a_in,       \* the arguments of an Asset::new call
    a_out,      \* outcome of the Asset::new call
    g_target,   \* get_arch argument
    g_out,      \* value returned by get_arch
    cargo,      \* the Cargo manifest and the cargo-metadata arguments of to_config
    fs,         \* the file system seen by glob::glob and file::get_text
    taken,      \* what take_assets returned
    result,     \* what to_config returned: Ok((Config, warnings)) or Err
    config,     \* the Config handed to get_dependencies
    resolver,   \* outcome of dependencies::resolve for each call
    deps        \* what get_dependencies returned, with the calls it made

vars == <<a_in, a_out, g_target, g_out, cargo, fs, taken, result, config, resolver, deps>>

----------------------------------------------------------------------------
(* Option<T> *)

None == <<>>

Some(x) == <<x>>

IsSome(o) == Len(o) = 1

IsNone(o) == Len(o) = 0

Unwrap(o) == o[1]

\* The element of a one-element set: { body : v \in {e} } is body with v
\* bound to the value of e, computed once as a `let v = e;` of the source is
The(S) == CHOOSE r \in S : TRUE

----------------------------------------------------------------------------
(* Strings *)

Last(s) == s[Len(s)]

Front(s) == SubSeq(s, 1, Len(s) - 1)

Range(s) == {s[i] : i \in 1..Len(s)}

\* str::contains for a single character
Contains(s, c) == \E i \in 1..Len(s) : s[i] = c

\* str::ends_with / str::starts_with
EndsWith(s, t) == Len(s) >= Len(t) /\ SubSeq(s, Len(s) - Len(t) + 1, Len(s)) = t

StrStartsWith(s, t) == Len(s) >= Len(t) /\ SubSeq(s, 1, Len(t)) = t

\* str::split(c): the pieces between the occurrences of c, at least one piece
RECURSIVE Split(_, _)
Split(str, c) ==
    The({ IF ~Contains(s, c) THEN <<s>>
          ELSE The({ <<SubSeq(s, 1, i - 1)>> \o Split(SubSeq(s, i + 1, Len(s)), c)
                     : i \in {CHOOSE k \in 1..Len(s) :
                                s[k] = c /\ \A j \in 1..(k - 1) : s[j] # c} })
          : s \in {str} })

\* [String]::join(sep)
RECURSIVE JoinWith(_, _)
JoinWith(ss, sep) ==
    IF ss = <<>> THEN <<>>
    ELSE IF Len(ss) = 1 THEN ss[1]
    ELSE ss[1] \o sep \o JoinWith(Tail(ss), sep)

\* str::trim, white space being the atom " "
RECURSIVE TrimStart(_)
TrimStart(s) == IF s # <<>> /\ s[1] = " " THEN TrimStart(Tail(s)) ELSE s

RECURSIVE TrimEnd(_)
TrimEnd(s) == IF s # <<>> /\ Last(s) = " " THEN TrimEnd(Front(s)) ELSE s

Trim(s) == TrimEnd(TrimStart(s))

\* All sequences over S of length lo..hi
SeqsOf(S, lo, hi) == UNION {[1..n -> S] : n \in lo..hi}

----------------------------------------------------------------------------
(* std::path on Unix *)

SEP == <<"/">>

CurDir == <<".">>

ParentDir == <<".", ".">>

\* A piece between separators that Components::parse_single_component keeps
IsComp(piece) == piece # <<>> /\ piece # CurDir

RECURSIVE DropLeading(_)
DropLeading(ps) == IF ps # <<>> /\ ~IsComp(ps[1]) THEN DropLeading(Tail(ps)) ELSE ps

RECURSIVE DropTrailing(_)
DropTrailing(ps) == IF ps # <<>> /\ ~IsComp(Last(ps)) THEN DropTrailing(Front(ps)) ELSE ps

RECURSIVE KeepComps(_)
KeepComps(ps) ==
    IF ps = <<>> THEN <<>>
    ELSE (IF IsComp(ps[1]) THEN <<ps[1]>> ELSE <<>>) \o KeepComps(Tail(ps))

\* Path::is_absolute (has_root on Unix)
IsAbsolute(p) == p # <<>> /\ p[1] = "/"

\* Components::include_cur_dir: a relative path that starts with "." or "./"
HasCurDir(p) == ~IsAbsolute(p) /\ Split(p, "/")[1] = CurDir

\* The pieces after the root or the leading "." (the iterator's body)
BodyPieces(p) ==
    IF IsAbsolute(p) \/ HasCurDir(p) THEN Tail(Split(p, "/"))
    ELSE IF p = <<>> THEN <<>> ELSE Split(p, "/")

\* The root or leading "." as a component, if any
HeadComp(p) == IF IsAbsolute(p) THEN <<SEP>> ELSE IF HasCurDir(p) THEN <<CurDir>> ELSE <<>>

\* Path::components / Path::iter: RootDir as "/", CurDir as ".", then the
\* pieces that are neither empty nor "."
Components(path) == The({ HeadComp(p) \o KeepComps(BodyPieces(p)) : p \in {path} })

\* The text of the path made of head h and the body pieces ps
Assemble(h, ps) ==
    IF h = <<>> THEN JoinWith(ps, SEP)
    ELSE IF h[1] = SEP THEN SEP \o JoinWith(ps, SEP)
    ELSE IF ps = <<>> THEN CurDir ELSE CurDir \o SEP \o JoinWith(ps, SEP)

\* The pieces left after n components are taken from the front of ps
RECURSIVE SkipComps(_, _)
SkipComps(ps, n) ==
    IF n = 0 \/ ps = <<>> THEN ps
    ELSE IF IsComp(ps[1]) THEN SkipComps(Tail(ps), n - 1)
    ELSE SkipComps(Tail(ps), n)

IsPrefixSeq(s, t) == Len(s) <= Len(t) /\ SubSeq(t, 1, Len(s)) = s

\* Path::starts_with: component-wise
StartsWith(p, base) == IsPrefixSeq(Components(base), Components(p))

\* Path::strip_prefix: Components::as_path of what is left once the
\* components of base are consumed; as_path trims the separators and "."
\* pieces at the back, and at the front once a component was consumed
StripPrefix(path, base) ==
    The({ IF ~IsPrefixSeq(bc, Components(p)) THEN None
          ELSE IF bc = <<>> THEN Some(Assemble(HeadComp(p), DropTrailing(body)))
          ELSE Some(JoinWith(DropTrailing(DropLeading(
                        SkipComps(body, Len(bc) - Len(HeadComp(p))))), SEP))
          : p \in {path}, bc \in {Components(base)}, body \in {BodyPieces(path)} })

\* PathBuf::push / Path::join
Join(p, q) ==
    IF IsAbsolute(q) THEN q
    ELSE IF p # <<>> /\ Last(p) # "/" THEN p \o SEP \o q
    ELSE p \o q

\* Path::file_name: the last component when it is a normal one
FileName(p) ==
    The({ IF cs = <<>> \/ Last(cs) = SEP \/ Last(cs) = CurDir \/ Last(cs) = ParentDir
          THEN None ELSE Some(Last(cs))
          : cs \in {Components(p)} })

\* Path::parent: the path without its last component
Parent(path) ==
    The({ IF cs = <<>> \/ Last(cs) = SEP THEN None
          ELSE IF body = <<>> THEN Some(<<>>)
          ELSE Some(Assemble(HeadComp(p), DropTrailing(Front(body))))
          : p \in {path}, cs \in {Components(path)},
            body \in {DropTrailing(BodyPieces(path))} })

\* FromIterator for PathBuf: push every component
RECURSIVE CollectPath(_)
CollectPath(cs) == IF cs = <<>> THEN <<>> ELSE Join(CollectPath(Front(cs)), Last(cs))

----------------------------------------------------------------------------
(* Asset *)

\* fn is_glob_pattern
is_glob_pattern(s) ==
    Contains(s, "*") \/ Contains(s, "[") \/ Contains(s, "]") \/ Contains(s, "!")

Asset(source_file, target_path, chmod) ==
    [source_file |-> source_file, target_path |-> target_path, chmod |-> chmod]

\* Asset::new without its first statement
KeepRoot(target_path) == target_path

\* Asset::new, first statement: an absolute target loses its root
StripRoot(target_path) ==
    The({ IF IsAbsolute(t) THEN Unwrap(StripPrefix(t, SEP)) ELSE t : t \in {target_path} })

\* Asset::new.  None stands for the panic of expect("source must be a file");
\* strip_prefix("/") of an absolute path never fails
AssetNew(source_file, target_path, chmod) ==
    The({ IF EndsWith(t1, SEP)
          THEN The({ IF IsNone(file_name) THEN None
                     ELSE Some(Asset(source_file, Join(t1, Unwrap(file_name)), chmod))
                     : file_name \in {FileName(source_file)} })
          ELSE Some(Asset(source_file, t1, chmod))
          : t1 \in {StripRoot(target_path)} })

\* Asset::is_binary_executable; chmod & 0o111 is zero exactly when no octal
\* digit of the three lowest is odd
HasExecBit(chmod) ==
    (chmod % 2 = 1) \/ ((chmod \div 8) % 2 = 1) \/ ((chmod \div 64) % 2 = 1)

is_binary_executable(asset, workspace_root, release_dir_prefix) ==
    StartsWith(Join(workspace_root, asset.source_file), release_dir_prefix)
        /\ HasExecBit(asset.chmod)

----------------------------------------------------------------------------
(* Architecture mapper *)

\* A one-atom string
W(a) == <<a>>

\* The match with the hard-float test made on the arch instead of the abi
ArchMatchOnArch(arch, abi) ==
    IF arch = W("aarch64") THEN W("arm64")
    ELSE IF arch = W("x86_64") /\ abi = W("gnux32") THEN W("x32")
    ELSE IF arch = W("x86_64") THEN W("amd64")
    ELSE IF StrStartsWith(arch, W("arm")) /\ EndsWith(arch, W("hf")) THEN W("armhf")
    ELSE IF StrStartsWith(arch, W("arm")) THEN W("armel")
    ELSE arch

\* fn get_arch: the match on (arch, abi), arm by arm.  None stands for the
\* panic of parts.next().unwrap()
ArchMatch(arch, abi) ==
    IF arch = W("aarch64") THEN W("arm64")
    ELSE IF arch = W("mips64") /\ abi = W("gnuabin32") THEN W("mipsn32")
    ELSE IF arch = W("mips64el") /\ abi = W("gnuabin32") THEN W("mipsn32el")
    ELSE IF arch = W("mipsisa32r6") THEN W("mipsr6")
    ELSE IF arch = W("mipsisa32r6el") THEN W("mipsr6el")
    ELSE IF arch = W("mipsisa64r6") /\ abi = W("gnuabi64") THEN W("mips64r6")
    ELSE IF arch = W("mipsisa64r6") /\ abi = W("gnuabin32") THEN W("mipsn32r6")
    ELSE IF arch = W("mipsisa64r6el") /\ abi = W("gnuabi64") THEN W("mips64r6el")
    ELSE IF arch = W("mipsisa64r6el") /\ abi = W("gnuabin32") THEN W("mipsn32r6el")
    ELSE IF arch = W("powerpc") /\ abi = W("gnuspe") THEN W("powerpcspe")
    ELSE IF arch = W("powerpc64") THEN W("ppc64")
    ELSE IF arch = W("powerpc64le") THEN W("ppc64el")
    ELSE IF arch = W("i586") THEN W("i386")
    ELSE IF arch = W("i686") THEN W("i386")
    ELSE IF arch = W("x86") THEN W("i386")
    ELSE IF arch = W("x86_64") /\ abi = W("gnux32") THEN W("x32")
    ELSE IF arch = W("x86_64") THEN W("amd64")
    ELSE IF StrStartsWith(arch, W("arm")) /\ EndsWith(abi, W("hf")) THEN W("armhf")
    ELSE IF StrStartsWith(arch, W("arm")) THEN W("armel")
    ELSE arch

get_arch(target) ==
    LET parts == Split(target, "-")
    IN  IF parts = <<>> THEN None
        ELSE LET arch == parts[1]
                 rest == Tail(parts)
                 abi  == IF rest = <<>> THEN <<>> ELSE Last(rest)
             IN  Some(ArchMatch(arch, abi))

\* std::env::consts::ARCH of the host the tool runs on
ARCH == W("x86_64")

----------------------------------------------------------------------------
(* Numbers *)

Digits == <<"0", "1", "2", "3", "4", "5", "6", "7", "8", "9">>

IsDigit(a, radix) == \E d \in 1..radix : Digits[d] = a

DigitVal(a) == (CHOOSE d \in 1..10 : Digits[d] = a) - 1

RECURSIVE DigitsValue(_, _)
DigitsValue(s, radix) ==
    IF s = <<>> THEN 0 ELSE DigitsValue(Front(s), radix) * radix + DigitVal(Last(s))

\* <unsigned>::from_str_radix: an optional "+", then at least one digit of
\* the radix; None is the ParseIntError.  The digit strings of the model are
\* at most four digits long, so the value always fits u32 and usize and the
\* overflow error cannot arise
ParseUnsigned(s, radix) ==
    LET ds == IF s # <<>> /\ s[1] = "+" THEN Tail(s) ELSE s
    IN  IF ds = <<>> THEN None
        ELSE IF \E i \in 1..Len(ds) : ~IsDigit(ds[i], radix) THEN None
        ELSE Some(DigitsValue(ds, radix))

----------------------------------------------------------------------------
(* The file system, glob::glob and file::get_text.                         *)
(* fs = [files |-> the paths that are files, dirs |-> the paths that are   *)
(* directories]; a relative path is relative to the working directory.     *)
(* The patterns of the model are made of ordinary atoms and "*".           *)

\* Text of a path from its component names
P(names) == JoinWith([i \in 1..Len(names) |-> W(names[i])], SEP)

Abs(names) == SEP \o P(names)

Triple == <<"arm", "v7", "-", "unknown", "-", "linux", "-", "gnueabi", "hf">>

WorkspaceRoot == Abs(<<"ws">>)

TargetDirectory == Abs(<<"ws", "target">>)

ReadmeMd == <<"README", ".md">>

\* Every path the model's file systems may hold, in the order glob yields them
FsOrder ==
    << Abs(<<"ws", "target", "release", "app">>),
       Abs(<<"ws", "target", "release", "tool">>),
       SEP \o P(<<"ws", "target">>) \o SEP \o Triple \o SEP \o P(<<"release", "app">>),
       ReadmeMd,
       P(<<"lib">>),
       P(<<"lib", "a">>),
       P(<<"lib", "d">>),
       P(<<"lib", "d", "x">>) >>

\* One pattern component against one path component: "*" stands for any run
RECURSIVE WildMatch(_, _)
WildMatch(pat, str) ==
    IF pat = <<>> THEN str = <<>>
    ELSE IF pat[1] = "*"
         THEN WildMatch(Tail(pat), str) \/ (str # <<>> /\ WildMatch(pat, Tail(str)))
    ELSE str # <<>> /\ pat[1] = str[1] /\ WildMatch(Tail(pat), Tail(str))

GlobMatches(pattern, path) ==
    LET pc == Components(pattern)
        cc == Components(path)
    IN  Len(pc) = Len(cc) /\ \A i \in 1..Len(pc) : WildMatch(pc[i], cc[i])

Exists(fsv, path) == path \in fsv.files \/ path \in fsv.dirs

\* glob::glob(pattern): the existing paths that match
Glob(fsv, pattern) ==
    SelectSeq(FsOrder, LAMBDA path : Exists(fsv, path) /\ GlobMatches(pattern, path))

\* Path::is_dir
IsDir(fsv, path) == path \in fsv.dirs

\* file::get_text: the text of a file, None for the io::Error
get_text(fsv, path) ==
    IF path \in fsv.files THEN Some(<<"text of ">> \o path) ELSE None

----------------------------------------------------------------------------
(* Config *)

\* Config::path_in_build
path_in_build(cfg, rel_path) == Join(Join(cfg.target_dir, W("release")), rel_path)

\* Config::deb_dir
deb_dir(cfg) == Join(cfg.target_dir, W("debian"))

\* Config::path_in_deb
path_in_deb(cfg, rel_path) == Join(deb_dir(cfg), rel_path)

DocDir(name) == Join(P(<<"usr", "share", "doc">>), name)

\* 0o644 and 0o755
Mode644 == 420

Mode755 == 493

\* Config::add_copyright_asset.  Asset::new cannot panic here: the target
\* does not end in a separator
add_copyright_asset(cfg) ==
    [cfg EXCEPT !.assets =
        Append(@, Unwrap(AssetNew(path_in_deb(cfg, W("copyright")),
                                  Join(DocDir(cfg.name), W("copyright")), Mode644)))]

\* Config::add_changelog_asset
add_changelog_asset(cfg, changelog) ==
    IF IsSome(changelog)
    THEN [cfg EXCEPT !.assets =
            Append(@, Unwrap(AssetNew(Unwrap(changelog),
                                      Join(DocDir(cfg.name), W("changelog")), Mode644)))]
    ELSE cfg

\* Config::binaries.  None stands for the panic of expect("no target dir")
binaries(cfg) ==
    The({ IF IsNone(target_dir) THEN None
          ELSE The({ The({ Some([i \in 1..Len(bins) |-> bins[i].source_file])
                           : bins \in {SelectSeq(cfg.assets, LAMBDA asset :
                                is_binary_executable(asset, cfg.workspace_root,
                                                     release_dir_prefix))} })
                     : release_dir_prefix \in {Join(Unwrap(target_dir), W("release"))} })
          : target_dir \in {IF IsSome(cfg.target) THEN Parent(cfg.target_dir)
                            ELSE Some(cfg.target_dir)} })

----------------------------------------------------------------------------
(* Cargo: the manifest.  cg.deb is the [package.metadata.deb] table, with  *)
(* CargoDeb::default() (every field None) when the manifest has none.  The *)
(* fields to_config only copies (homepage, documentation, repository,      *)
(* conflicts, breaks, replaces, provides, section, priority, conf_files,   *)
(* maintainer_scripts, features, default_features, strip) are left out.    *)

\* Outcome of take_assets: Ok(assets), Err(err), or a panic
\* (marks[i] is the number of assets once rule i is expanded)
AssetsOk(assets, marks) ==
    [status |-> "ok", err |-> <<>>, assets |-> assets, marks |-> marks]

AssetsErr(e) == [status |-> "err", err |-> W(e), assets |-> <<>>, marks |-> <<>>]

AssetsPanic(e) == [status |-> "panic", err |-> W(e), assets |-> <<>>, marks |-> <<>>]

\* Iterator::take_while
RECURSIVE TakeWhileLiteral(_)
TakeWhileLiteral(cs) ==
    IF cs = <<>> \/ is_glob_pattern(cs[1]) THEN <<>>
    ELSE <<cs[1]>> \o TakeWhileLiteral(Tail(cs))

ReleaseMarker == P(<<"target", "release">>)

\* take_assets, lines 343-346: a source under target/release is moved to
\* the build directory
RewriteSource(options, declared) ==
    IF StartsWith(declared, ReleaseMarker)
    THEN The({ path_in_build(options, rel_path)
               : rel_path \in {Unwrap(StripPrefix(declared, ReleaseMarker))} })
    ELSE declared

\* take_assets, lines 351-353
SourcePrefix(source_path) == CollectPath(TakeWhileLiteral(Components(source_path)))

\* The target of a pattern's match, computed for every rule
TargetFileJoined(source_path, source_file, target_path) ==
    The({ IF IsNone(rel) THEN None ELSE Some(Join(target_path, Unwrap(rel)))
          : rel \in {StripPrefix(source_file, SourcePrefix(source_path))} })

\* The target of a literal rule, used for every rule
TargetFileVerbatim(source_path, source_file, target_path) == Some(target_path)

\* take_assets, lines 360-364: the target handed to Asset::new; None is the
\* panic of strip_prefix(..).unwrap()
TargetFile(source_path, source_file, target_path) ==
    IF is_glob_pattern(source_path)
    THEN The({ IF IsNone(rel) THEN None ELSE Some(Join(target_path, Unwrap(rel)))
               : rel \in {StripPrefix(source_file, SourcePrefix(source_path))} })
    ELSE Some(target_path)

\* take_assets, lines 354-370: the loop over the matches of one rule
RECURSIVE ExpandEntries(_, _, _, _, _, _)
ExpandEntries(fsv, entries, source_path, target_path, mode, acc) ==
    IF entries = <<>> THEN AssetsOk(acc, <<>>)
    ELSE IF IsDir(fsv, entries[1])
    THEN ExpandEntries(fsv, Tail(entries), source_path, target_path, mode, acc)
    ELSE The({
        IF IsNone(target_file) THEN AssetsPanic("strip_prefix")
        ELSE The({ IF IsNone(asset) THEN AssetsPanic("source must be a file")
                   ELSE ExpandEntries(fsv, Tail(entries), source_path, target_path, mode,
                                      Append(acc, Unwrap(asset)))
                   : asset \in {AssetNew(entries[1], Unwrap(target_file), mode)} })
        : target_file \in {TargetFile(source_path, entries[1], target_path)} })

\* take_assets, lines 341-371: one declared rule v, appended to acc
ExpandRule(options, fsv, v, acc) ==
    IF Len(v) < 1 THEN AssetsErr("missing path for asset")
    ELSE IF Len(v) < 2 THEN AssetsErr("missing target for asset")
    ELSE IF Len(v) < 3 THEN AssetsErr("missing chmod for asset")
    ELSE The({
        IF IsNone(mode) THEN AssetsErr("unable to parse chmod argument")
        ELSE The({ ExpandEntries(fsv, entries, source_path, target_path, Unwrap(mode), acc)
                   : entries \in {Glob(fsv, source_path)} })
        : source_path \in {RewriteSource(options, v[1])},
          target_path \in {v[2]},
          mode \in {ParseUnsigned(v[3], 8)} })

RECURSIVE ExpandRules(_, _, _, _, _)
ExpandRules(options, fsv, rules, acc, marks) ==
    IF rules = <<>> THEN AssetsOk(acc, marks)
    ELSE The({ IF r.status # "ok" THEN r
               ELSE ExpandRules(options, fsv, Tail(rules), r.assets,
                                Append(marks, Len(r.assets)))
               : r \in {ExpandRule(options, fsv, rules[1], acc)} })

IsBinTarget(t) == Contains(t.crate_types, "bin") /\ Contains(t.kind, "bin")

\* take_assets, lines 377-383: the asset of each executable target
RECURSIVE BinAssets(_, _)
BinAssets(options, bins) ==
    IF bins = <<>> THEN <<>>
    ELSE <<Unwrap(AssetNew(path_in_build(options, bins[1].name),
                           Join(P(<<"usr", "bin">>), bins[1].name), Mode755))>>
         \o BinAssets(options, Tail(bins))

\* take_assets, lines 374-392: the assets of a manifest that declares none.
\* Asset::new cannot panic here: no target ends in a separator
ImpliedAssets(name, options, targets, readme) ==
    The({ IF IsSome(readme)
          THEN Append(implied, Unwrap(AssetNew(Unwrap(readme),
                                               Join(DocDir(name), Unwrap(readme)), Mode644)))
          ELSE implied
          : implied \in {BinAssets(options, SelectSeq(targets, IsBinTarget))} })

\* take_assets with an empty rule list treated as no rule list
take_assets_unless_empty(name, options, fsv, assets, targets, readme) ==
    IF IsSome(assets) /\ Unwrap(assets) # <<>>
    THEN ExpandRules(options, fsv, Unwrap(assets), <<>>, <<>>)
    ELSE AssetsOk(ImpliedAssets(name, options, targets, readme), <<>>)

\* Cargo::take_assets
take_assets(name, options, fsv, assets, targets, readme) ==
    IF IsSome(assets) THEN ExpandRules(options, fsv, Unwrap(assets), <<>>, <<>>)
    ELSE AssetsOk(ImpliedAssets(name, options, targets, readme), <<>>)

\* Cargo::version_string
version_string(cg, revision) ==
    IF IsSome(revision) THEN cg.version \o <<"-">> \o Unwrap(revision) ELSE cg.version

\* Cargo::license_file: None is the NumParse error, else Some(<<file, lines>>)
license_file(cg, license_file_arg) ==
    IF IsSome(license_file_arg)
    THEN LET args == Unwrap(license_file_arg)
             file == IF Len(args) >= 1 THEN Some(args[1]) ELSE None
             lines == IF Len(args) >= 2 THEN ParseUnsigned(args[2], 10) ELSE Some(0)
         IN  IF IsNone(lines) THEN None ELSE Some(<<file, Unwrap(lines)>>)
    ELSE Some(<<cg.license_file, 0>>)

ReadmeCandidates == <<ReadmeMd, <<"README", ".txt">>, <<"README">>>>

\* check_config, lines 304-309: the first conventional readme that exists
FoundReadmes(fsv) == SelectSeq(ReadmeCandidates, LAMBDA q : Exists(fsv, q))

WarnDescription == W("description field is missing in Cargo.toml")

WarnLicense == W("license field is missing in Cargo.toml")

WarnMarkdown(readme) ==
    <<"extended-description field missing. Using ">> \o readme
        \o <<", but markdown may not render well.">>

WarnUnlisted(q) == q \o <<" file exists, but is not specified in readme Cargo.toml field">>

\* Cargo::check_config
check_config(cg, fsv, readme, deb) ==
    (IF IsNone(cg.description) THEN <<WarnDescription>> ELSE <<>>)
    \o (IF IsNone(cg.license) THEN <<WarnLicense>> ELSE <<>>)
    \o (IF IsSome(readme)
        THEN IF IsNone(deb.extended_description)
                /\ (EndsWith(Unwrap(readme), W(".md")) \/ EndsWith(Unwrap(readme), W(".markdown")))
             THEN <<WarnMarkdown(Unwrap(readme))>> ELSE <<>>
        ELSE IF FoundReadmes(fsv) # <<>> THEN <<WarnUnlisted(FoundReadmes(fsv)[1])>> ELSE <<>>)

\* extended_description with a readme that cannot be read taken as no readme
extended_description_lenient(fsv, desc, readme) ==
    IF IsSome(desc) THEN Some(desc)
    ELSE IF IsSome(readme) THEN Some(get_text(fsv, Unwrap(readme)))
    ELSE Some(None)

\* Cargo::extended_description: None is the IoFile error, else Some(Option)
extended_description(fsv, desc, readme) ==
    IF IsSome(desc) THEN Some(desc)
    ELSE IF IsSome(readme)
         THEN IF IsNone(get_text(fsv, Unwrap(readme))) THEN None
              ELSE Some(get_text(fsv, Unwrap(readme)))
    ELSE Some(None)

\* to_config, lines 250-252: None is the error
Copyright(cg, deb) ==
    IF IsSome(deb.copyright) THEN deb.copyright
    ELSE IF IsNone(cg.authors) THEN None
    ELSE Some(JoinWith(Unwrap(cg.authors), <<",", " ">>))

\* The maintainer taken from the joined author list, as the copyright is
MaintainerJoined(cg, deb) ==
    IF IsSome(deb.maintainer) THEN deb.maintainer
    ELSE IF IsNone(cg.authors) THEN None
    ELSE Some(JoinWith(Unwrap(cg.authors), <<",", " ">>))

\* to_config, lines 259-262: None is the error
Maintainer(cg, deb) ==
    IF IsSome(deb.maintainer) THEN deb.maintainer
    ELSE IF IsNone(cg.authors) \/ Unwrap(cg.authors) = <<>> THEN None
    ELSE Some(Unwrap(cg.authors)[1])

Auto == <<"$auto">>

\* What to_config returns
ConfigOk(cfg, warnings) ==
    [status |-> "ok", err |-> <<>>, config |-> Some(cfg), warnings |-> warnings]

ConfigErr(e) == [status |-> "err", err |-> e, config |-> None, warnings |-> <<>>]

ConfigPanic(e) == [status |-> "panic", err |-> e, config |-> None, warnings |-> <<>>]

ErrLines == W("invalid number of lines")

ErrCopyright == W("Package must have a copyright or authors")

ErrReadme == W("unable to read README")

ErrMaintainer == W("Package must have a maintainer or authors")

ErrEmpty == W("No binaries found. The package is empty. Please specify some assets to package in Cargo.toml")

\* to_config, lines 242-278: the Config before its assets are filled in
NewConfig(cg, target_dir, lf, copyright, ext, maintainer) ==
    [ workspace_root |-> cg.workspace_root,
      target |-> cg.target,
      target_dir |-> target_dir,
      name |-> cg.name,
      license |-> cg.license,
      license_file |-> lf[1],
      license_file_skip_lines |-> lf[2],
      copyright |-> copyright,
      version |-> version_string(cg, cg.deb.revision),
      description |-> IF IsSome(cg.description) THEN Unwrap(cg.description)
                      ELSE cg.name \o <<" -- autogenerated Rust project">>,
      extended_description |-> ext,
      maintainer |-> maintainer,
      depends |-> IF IsSome(cg.deb.depends) THEN Unwrap(cg.deb.depends) ELSE Auto,
      architecture |-> Unwrap(get_arch(IF IsSome(cg.target) THEN Unwrap(cg.target) ELSE ARCH)),
      assets |-> <<>> ]

\* to_config with the emptiness test made after the two assets are appended
FillAssetsThenTest(cg, fsv, cfg, warnings) ==
    The({ IF got.status = "panic" THEN ConfigPanic(got.err)
          ELSE IF got.status = "err" THEN ConfigErr(got.err)
          ELSE The({ IF filled.assets = <<>> THEN ConfigErr(ErrEmpty)
                     ELSE ConfigOk(filled, warnings)
                     : filled \in {add_changelog_asset(
                                     add_copyright_asset([cfg EXCEPT !.assets = @ \o got.assets]),
                                     cg.deb.changelog)} })
          : got \in {take_assets(cg.name, cfg, fsv, cg.deb.assets, cg.targets, cg.readme)} })

\* to_config, lines 280-288
FillAssets(cg, fsv, cfg, warnings) ==
    The({ IF got.status = "panic" THEN ConfigPanic(got.err)
          ELSE IF got.status = "err" THEN ConfigErr(got.err)
          ELSE IF got.assets = <<>> THEN ConfigErr(ErrEmpty)
          ELSE The({ ConfigOk(add_changelog_asset(with_copyright, cg.deb.changelog),
                              warnings)
                     : with_copyright \in
                         {add_copyright_asset([cfg EXCEPT !.assets = @ \o got.assets])} })
          : got \in {take_assets(cg.name, cfg, fsv, cg.deb.assets, cg.targets, cg.readme)} })

\* Cargo::to_config
to_config(cg, fsv) ==
    The({ IF IsNone(lf) THEN ConfigErr(ErrLines)
          ELSE IF IsNone(copyright) THEN ConfigErr(ErrCopyright)
          ELSE IF IsNone(ext) THEN ConfigErr(ErrReadme)
          ELSE IF IsNone(maintainer) THEN ConfigErr(ErrMaintainer)
          ELSE The({ FillAssets(cg, fsv, options, warnings)
                     : options \in {NewConfig(cg, target_dir, Unwrap(lf), Unwrap(copyright),
                                              Unwrap(ext), Unwrap(maintainer))} })
          : target_dir \in {IF IsSome(cg.target) THEN Join(cg.target_dir, Unwrap(cg.target))
                            ELSE cg.target_dir},
            lf \in {license_file(cg, cg.deb.license_file)},
            warnings \in {check_config(cg, fsv, cg.readme, cg.deb)},
            copyright \in {Copyright(cg, cg.deb)},
            ext \in {extended_description(fsv, cg.deb.extended_description, cg.readme)},
            maintainer \in {Maintainer(cg, cg.deb)} })

----------------------------------------------------------------------------
(* Config::get_dependencies *)

\* Vec::push in the place of HashSet::insert
VecPush(set, x) == Append(set, x)

\* HashSet::insert, the set kept as a duplicate-free list
HashSetInsert(set, x) == IF x \in Range(set) THEN set ELSE Append(set, x)

RECURSIVE InsertAll(_, _)
InsertAll(set, xs) ==
    IF xs = <<>> THEN set ELSE InsertAll(HashSetInsert(set, xs[1]), Tail(xs))

\* dependencies::resolve(bname, architecture): None is its Err
Resolve(res, bname) == IF bname \in DOMAIN res THEN res[bname] ELSE None

\* The loop over the binaries left at the first resolver error
RECURSIVE ResolveBinariesAbort(_, _, _)
ResolveBinariesAbort(res, bnames, st) ==
    IF bnames = <<>> THEN st
    ELSE IF IsNone(Resolve(res, bnames[1]))
    THEN [st EXCEPT !.calls = Append(@, bnames[1]), !.warned = Append(@, bnames[1])]
    ELSE ResolveBinariesAbort(res, Tail(bnames),
            [st EXCEPT !.calls = Append(@, bnames[1]),
                       !.set = InsertAll(@, Unwrap(Resolve(res, bnames[1])))])

\* get_dependencies, lines 128-135: the loop over the binaries; st holds
\* the set, the resolver calls made and the binaries warned about
RECURSIVE ResolveBinaries(_, _, _)
ResolveBinaries(res, bnames, st) ==
    IF bnames = <<>> THEN st
    ELSE The({ ResolveBinaries(res, Tail(bnames), next)
               : next \in {IF IsSome(Resolve(res, bnames[1]))
                           THEN [st EXCEPT !.calls = Append(@, bnames[1]),
                                           !.set = InsertAll(@, Unwrap(Resolve(res, bnames[1])))]
                           ELSE [st EXCEPT !.calls = Append(@, bnames[1]),
                                           !.warned = Append(@, bnames[1])]} })

\* get_dependencies, lines 125-139: the loop over the words
RECURSIVE CollectDeps(_, _, _, _)
CollectDeps(cfg, res, words, st) ==
    IF words = <<>> \/ st.status # "ok" THEN st
    ELSE The({ CollectDeps(cfg, res, Tail(words), next)
               : next \in {IF Trim(words[1]) = Auto
                           THEN The({ IF IsNone(bins) THEN [st EXCEPT !.status = "panic"]
                                      ELSE ResolveBinaries(res, Unwrap(bins), st)
                                      : bins \in {binaries(cfg)} })
                           ELSE [st EXCEPT !.set = HashSetInsert(@, Trim(words[1]))]} })

DepsStart == [status |-> "ok", set |-> <<>>, calls |-> <<>>, warned |-> <<>>]

\* The elements of a HashSet in the order of one iteration
Reorder(set, perm) == [i \in 1..Len(set) |-> set[perm[i]]]

\* get_dependencies up to line 139: the set and the calls made
CollectedDeps(cfg, res) ==
    The({ CollectDeps(cfg, res, words, DepsStart) : words \in {Split(cfg.depends, ",")} })

\* Config::get_dependencies, the HashSet iterated in the order perm
get_dependencies(cfg, res, perm) ==
    The({ [ status |-> st.status,
            out |-> IF st.status = "ok"
                    THEN JoinWith(Reorder(st.set, perm), <<",", " ">>)
                    ELSE <<>>,
            calls |-> st.calls,
            warned |-> st.warned ]
          : st \in {CollectedDeps(cfg, res)} })

----------------------------------------------------------------------------
(* Inputs *)

\* Longest target path handed to Asset::new, in atoms
MaxTargetLen == 4

\* Most rules in the asset list handed to take_assets
MaxRules == 1

\* Most words in the dependency directive
MaxWords == 2

AssetSources ==
    { P(<<"foo", "bar">>), W("bar"), P(<<"foo", "bar">>) \o SEP, P(<<"foo">>) \o SEP \o CurDir,
      P(<<"foo">>) \o SEP \o ParentDir, ParentDir, SEP, <<>> }

AssetTargets == SeqsOf({"/", ".", "baz", "quz"}, 0, MaxTargetLen)

AssetModes == {Mode644, Mode755}

ArchNames ==
    { W("aarch64"), W("mips64"), W("mips64el"), W("mipsisa32r6"), W("mipsisa32r6el"),
      W("mipsisa64r6"), W("mipsisa64r6el"), W("powerpc"), W("powerpc64"), W("powerpc64le"),
      W("i586"), W("i686"), W("x86"), W("x86_64"), W("arm"), <<"arm", "v7">>,
      <<"arm", "hf">>, <<"thumb", "v7">>, W("riscv64"), W("s390x"), W("mips"), <<>> }

AbiNames ==
    { W("gnu"), W("musl"), W("gnux32"), W("gnuabin32"), W("gnuabi64"), W("gnuspe"),
      W("gnueabi"), <<"gnueabi", "hf">>, <<"musleabi", "hf">>, W("hf"), <<>> }

\* vendor and os, when the target has them
Middles == { <<>>, <<W("unknown")>>, <<W("unknown"), W("linux")>> }

\* arch[-vendor[-os]][-abi]
TargetString(arch, middle, abi) == JoinWith(<<arch>> \o middle \o abi, <<"-">>)

IdleCall == [status |-> "idle", value |-> None]

IdleAssets == [status |-> "idle", err |-> <<>>, assets |-> <<>>, marks |-> <<>>]

IdleResult == [status |-> "idle", err |-> <<>>, config |-> None, warnings |-> <<>>]

IdleDeps == [status |-> "idle", out |-> <<>>, calls |-> <<>>, warned |-> <<>>]

NoFs == [files |-> {}, dirs |-> {}]

NoInput == <<>>

----------------------------------------------------------------------------
(* Asset::new called on its own *)

InitAsset ==
    /\ a_in \in { Asset(src, dst, mode) : src \in AssetSources, dst \in AssetTargets,
                                         mode \in AssetModes }
    /\ a_out = IdleCall
    /\ g_target = NoInput /\ g_out = IdleCall
    /\ cargo = NoInput /\ fs = NoFs /\ taken = IdleAssets /\ result = IdleResult
    /\ config = None /\ resolver = NoInput /\ deps = IdleDeps

AssetNewCall ==
    /\ a_in # NoInput
    /\ a_out.status = "idle"
    /\ LET r == AssetNew(a_in.source_file, a_in.target_path, a_in.chmod)
       IN  a_out' = [status |-> IF IsNone(r) THEN "panic" ELSE "ok", value |-> r]
    /\ UNCHANGED <<a_in, g_target, g_out, cargo, fs, taken, result, config, resolver, deps>>

SpecAsset == InitAsset /\ [][AssetNewCall]_vars

(* get_arch called on its own *)

InitArch ==
    /\ g_target \in { TargetString(arch, middle, abi) :
                        arch \in ArchNames, middle \in Middles,
                        abi \in {None} \cup {Some(b) : b \in AbiNames} }
    /\ g_out = IdleCall
    /\ a_in = NoInput /\ a_out = IdleCall
    /\ cargo = NoInput /\ fs = NoFs /\ taken = IdleAssets /\ result = IdleResult
    /\ config = None /\ resolver = NoInput /\ deps = IdleDeps

GetArchCall ==
    /\ g_out.status = "idle"
    /\ LET r == get_arch(g_target)
       IN  g_out' = [status |-> IF IsNone(r) THEN "panic" ELSE "ok", value |-> r]
    /\ UNCHANGED <<a_in, a_out, g_target, cargo, fs, taken, result, config, resolver, deps>>

SpecArch == InitArch /\ [][GetArchCall]_vars

----------------------------------------------------------------------------
(* Manifests and file systems *)

LibTarget == [name |-> W("pkg"), kind |-> <<"lib">>, crate_types |-> <<"lib">>]

BinTarget(n) == [name |-> W(n), kind |-> <<"bin">>, crate_types |-> <<"bin">>]

\* An example target: kind "example", crate type "bin"
ExampleTarget == [name |-> W("demo"), kind |-> <<"example">>, crate_types |-> <<"bin">>]

BaseDeb ==
    [ maintainer |-> None, copyright |-> None, license_file |-> None, changelog |-> None,
      depends |-> None, extended_description |-> None, revision |-> None, assets |-> None ]

BaseCargo ==
    [ name |-> W("pkg"),
      authors |-> Some(<<W("Ann"), W("Bob")>>),
      license |-> Some(W("MIT")),
      license_file |-> Some(W("LICENSE")),
      version |-> <<"1", ".", "0">>,
      description |-> Some(W("demo")),
      readme |-> None,
      deb |-> BaseDeb,
      targets |-> <<LibTarget, BinTarget("app"), ExampleTarget>>,
      workspace_root |-> WorkspaceRoot,
      target_dir |-> TargetDirectory,
      target |-> None ]

\* The file system: which build outputs exist, what lib/a is, whether
\* lib/d/x and README.md exist; a directory exists when something is in it
FileSystem(built, liba, libdx, readme) ==
    [ files |-> (IF built THEN {FsOrder[1], FsOrder[2], FsOrder[3]} ELSE {})
                \cup (IF liba = "file" THEN {P(<<"lib", "a">>)} ELSE {})
                \cup (IF libdx THEN {P(<<"lib", "d", "x">>)} ELSE {})
                \cup (IF readme THEN {ReadmeMd} ELSE {}),
      dirs |->  (IF liba # "absent" \/ libdx THEN {P(<<"lib">>)} ELSE {})
                \cup (IF liba = "dir" THEN {P(<<"lib", "a">>)} ELSE {})
                \cup (IF libdx THEN {P(<<"lib", "d">>)} ELSE {}) ]

FsFull == FileSystem(TRUE, "file", TRUE, TRUE)

FsBare == FileSystem(FALSE, "absent", FALSE, FALSE)

FileSystems ==
    { FileSystem(built, liba, libdx, TRUE) :
        built \in BOOLEAN, liba \in {"file", "dir", "absent"}, libdx \in BOOLEAN }

Targets == {None, Some(Triple)}

\* Declared sources: literal paths and patterns
RuleSources ==
    { P(<<"lib", "a">>),
      P(<<"lib", "*">>),
      P(<<"lib", "*", "x">>),
      <<"*", ".md">>,
      P(<<"target", "release", "app">>),
      P(<<"target", "release", "*">>) }

\* Declared destinations: relative, absolute, directory-style
RuleTargets ==
    { P(<<"usr", "lib">>), Abs(<<"usr", "lib">>), P(<<"usr", "lib">>) \o SEP,
      Abs(<<"usr", "lib">>) \o SEP }

Rules == { <<src, dst, <<"7", "5", "5">>>> : src \in RuleSources, dst \in RuleTargets }

WithAssets(cg, rules) == [cg EXCEPT !.deb.assets = rules]

(* take_assets called with the Config to_config builds *)

InitTake ==
    /\ cargo \in { [WithAssets(BaseCargo, Some(rules)) EXCEPT !.target = t] :
                     rules \in SeqsOf(Rules, 1, MaxRules), t \in Targets }
    /\ fs \in FileSystems
    /\ taken = IdleAssets
    /\ a_in = NoInput /\ a_out = IdleCall /\ g_target = NoInput /\ g_out = IdleCall
    /\ result = IdleResult /\ config = None /\ resolver = NoInput /\ deps = IdleDeps

\* The Config of to_config, line 242, for a manifest whose scalar fields are good
OptionsOf(cg) ==
    NewConfig(cg,
              IF IsSome(cg.target) THEN Join(cg.target_dir, Unwrap(cg.target)) ELSE cg.target_dir,
              Unwrap(license_file(cg, cg.deb.license_file)),
              Unwrap(Copyright(cg, cg.deb)),
              None,
              Unwrap(Maintainer(cg, cg.deb)))

TakeAssetsCall ==
    /\ taken.status = "idle"
    /\ result.status = "idle"
    /\ taken' = take_assets(cargo.name, OptionsOf(cargo), fs, cargo.deb.assets,
                            cargo.targets, cargo.readme)
    /\ UNCHANGED <<a_in, a_out, g_target, g_out, cargo, fs, result, config, resolver, deps>>

SpecTake == InitTake /\ [][TakeAssetsCall]_vars

----------------------------------------------------------------------------
(* to_config, then get_dependencies on the Config it returned *)

Notes == W("NOTES")

AuthorLists == {None, Some(<<>>), Some(<<W("Ann"), W("Bob")>>)}

LicenseFiles ==
    { None, Some(<<W("COPYING"), <<"3">>>>), Some(<<W("COPYING"), <<"x">>>>) }

\* README.md exists in FsFull, NOTES in no file system
Readmes == {None, Some(ReadmeMd), Some(Notes)}

\* (description, license) as the manifest has them
Describing == { <<Some(W("demo")), Some(W("MIT"))>>, <<None, Some(W("MIT"))>>,
                <<Some(W("demo")), None>> }

AppRule == <<P(<<"target", "release", "app">>), P(<<"usr", "bin">>) \o SEP, <<"7", "5", "5">>>>

LibRule == <<P(<<"lib", "*">>), Abs(<<"usr", "lib">>), <<"6", "4", "4">>>>

BadModeRule == <<P(<<"lib", "a">>), P(<<"usr", "lib", "a">>), <<"7", "5", "a">>>>

AssetLists ==
    { None,
      Some(<<>>),
      Some(<<AppRule>>),
      Some(<<LibRule, AppRule>>),
      Some(<<AppRule, BadModeRule>>),
      Some(<<<<P(<<"lib", "a">>), P(<<"usr", "lib", "a">>), <<"6", "4", "8">>>>>>),
      Some(<<<<P(<<"lib", "a">>), P(<<"usr", "lib", "a">>)>>>>),
      Some(<<<<P(<<"lib", "a">>)>>>>),
      Some(<<<<>>>>) }

TargetLists == { <<LibTarget>>, <<LibTarget, BinTarget("app"), ExampleTarget>> }

\* Manifests that vary the scalar fields, with no, a good or a bad asset list
ScalarManifests ==
    { [BaseCargo EXCEPT
          !.authors = au, !.description = dl[1], !.license = dl[2], !.readme = rd,
          !.deb = [BaseDeb EXCEPT !.copyright = cp, !.maintainer = mt, !.license_file = lf,
                                  !.extended_description = ed, !.assets = al]] :
        au \in AuthorLists, dl \in Describing, rd \in Readmes,
        cp \in {None, Some(W("(c) Ann"))}, mt \in {None, Some(W("Bob"))},
        lf \in LicenseFiles, ed \in {None, Some(W("long text"))},
        al \in {None, Some(<<AppRule>>), Some(<<AppRule, BadModeRule>>)} }

\* Manifests that vary what decides the assets
AssetManifests ==
    { [BaseCargo EXCEPT
          !.authors = au, !.readme = rd, !.targets = tg, !.target = t,
          !.deb = [BaseDeb EXCEPT !.assets = al, !.changelog = cl]] :
        au \in {None, Some(<<W("Ann"), W("Bob")>>)}, rd \in Readmes, tg \in TargetLists,
        t \in Targets, al \in AssetLists, cl \in {None, Some(W("CHANGES"))} }

Manifests == ScalarManifests \cup AssetManifests

InitConfig ==
    /\ cargo \in Manifests
    /\ fs \in {FsFull, FsBare}
    /\ result = IdleResult /\ config = None /\ resolver = NoInput /\ deps = IdleDeps
    /\ a_in = NoInput /\ a_out = IdleCall /\ g_target = NoInput /\ g_out = IdleCall
    /\ taken = IdleAssets

ToConfigCall ==
    /\ cargo # NoInput
    /\ result.status = "idle"
    /\ taken.status = "idle"
    /\ result' = to_config(cargo, fs)
    /\ config' = result'.config
    /\ UNCHANGED <<a_in, a_out, g_target, g_out, cargo, fs, taken, resolver, deps>>

\* What dependencies::resolve may return: an error, or names
ResolverOutcomes ==
    { None, Some(<<W("libc6")>>), Some(<<W("libfoo"), W("libc6"), W("libfoo")>>) }

\* The binaries get_dependencies may ask about
Resolvable(cfg) == IF IsNone(binaries(cfg)) THEN {} ELSE Range(Unwrap(binaries(cfg)))

GetDependenciesCall ==
    /\ IsSome(config)
    /\ deps.status = "idle"
    /\ \E res \in [Resolvable(Unwrap(config)) -> ResolverOutcomes] :
         \E perm \in Permutations(1..Len(CollectedDeps(Unwrap(config), res).set)) :
            /\ resolver' = res
            /\ deps' = get_dependencies(Unwrap(config), res, perm)
    /\ UNCHANGED <<a_in, a_out, g_target, g_out, cargo, fs, taken, result, config>>

NextConfig == ToConfigCall \/ GetDependenciesCall

Spec == InitConfig /\ [][NextConfig]_vars

(* Asset::new called on its own, or by to_config *)

InitAssetConfig == InitAsset \/ InitConfig

NextAssetConfig == AssetNewCall \/ ToConfigCall

SpecAssetConfig == InitAssetConfig /\ [][NextAssetConfig]_vars

----------------------------------------------------------------------------
(* get_dependencies on Configs whose directive and binaries vary *)

\* The words a directive is made of, before they are trimmed
RawWords ==
    { Auto, <<" ">> \o Auto, W("libc6"), <<" ", "libc6", " ">>, W("libfoo"), <<>> }

Directives == { JoinWith(ws, <<",">>) : ws \in SeqsOf(RawWords, 1, MaxWords) }

BinaryLists ==
    { <<LibTarget>>, <<LibTarget, BinTarget("app")>>,
      <<LibTarget, BinTarget("app"), BinTarget("tool")>> }

DepManifests ==
    { [BaseCargo EXCEPT !.targets = tg, !.target = t,
                        !.deb = [BaseDeb EXCEPT !.depends = Some(d)]] :
        tg \in BinaryLists, t \in Targets, d \in Directives }

InitDeps ==
    /\ cargo \in DepManifests
    /\ fs = FsFull
    /\ result = IdleResult /\ config = None /\ resolver = NoInput /\ deps = IdleDeps
    /\ a_in = NoInput /\ a_out = IdleCall /\ g_target = NoInput /\ g_out = IdleCall
    /\ taken = IdleAssets

SpecDeps == InitDeps /\ [][NextConfig]_vars

----------------------------------------------------------------------------
(* Asset::new: the destination of the asset it builds *)

AssetBuilt == a_out.status = "ok"

Declared == a_in.target_path

Built == Unwrap(a_out.value).target_path

\* Single separators only, no "." piece and no separator at the end
IsPlain(p) == \A i \in 1..Len(Split(p, "/")) : IsComp(Split(p, "/")[i])

\* s is a run of consecutive atoms of t
IsSlice(s, t) == \E i \in 1..(Len(t) + 1) : \E j \in (i - 1)..Len(t) : s = SubSeq(t, i, j)

\* C1 (amended): the destination of every asset Asset::new builds is
\* relative.  An absolute destination keeps its components but the root and
\* is a part of the declared text: exactly the leading separator is removed
\* when the rest is written plainly (/a/b becomes a/b), and repeated leading
\* separators, "." pieces next to them and whatever trails the last component
\* go as well.  A relative destination that does not end in a separator is
\* unchanged.  Every asset of a Config that to_config returns has a relative
\* destination.
C1_DestinationRelative ==
    /\ AssetBuilt =>
         /\ ~IsAbsolute(Built)
         /\ IsAbsolute(Declared) =>
              /\ Components(Built) = Tail(Components(Declared))
              /\ IsSlice(Built, Declared)
              /\ IsPlain(Tail(Declared)) => Built = Tail(Declared)
         /\ ~IsAbsolute(Declared) /\ ~EndsWith(Declared, SEP) => Built = Declared
    /\ result.status = "ok" =>
         \A i \in 1..Len(Unwrap(result.config).assets) :
            ~IsAbsolute(Unwrap(result.config).assets[i].target_path)

\* Asset::new("foo/bar", "/baz/quz", 0o644) has the destination baz/quz
C1_Witness ==
    /\ AssetBuilt
    /\ a_in.source_file = P(<<"foo", "bar">>)
    /\ Declared = Abs(<<"baz", "quz">>)
    /\ Built = P(<<"baz", "quz">>)

\* C1 as stated: an absolute destination (here one made of names and
\* separators that does not end in a separator) has exactly its leading
\* separator removed
C1_LeadingSeparatorOnly ==
    /\ AssetBuilt
    /\ IsAbsolute(Declared)
    /\ ~EndsWith(Declared, SEP)
    /\ "." \notin Range(Declared)
    => Built = Tail(Declared)

\* A destination whose text is a plain path followed by one separator
IsPlainDirectory(p) ==
    /\ EndsWith(p, SEP)
    /\ IsPlain(IF IsAbsolute(p) THEN Front(Tail(p)) ELSE Front(p))

\* C2: when the source has a base name and the declared destination ends in
\* a separator, relative or absolute, Asset::new succeeds and the destination
\* is the declared one, without its leading separator if absolute, with the
\* base name of the source appended
C2_BaseNameAppended ==
    /\ a_out.status # "idle"
    /\ IsSome(FileName(a_in.source_file))
    /\ IsPlainDirectory(Declared)
    => /\ AssetBuilt
       /\ Built = (IF IsAbsolute(Declared) THEN Tail(Declared) ELSE Declared)
                      \o Unwrap(FileName(a_in.source_file))

\* Asset::new("foo/bar", "/baz/", 0o644) has the destination baz
C2_Witness ==
    /\ AssetBuilt
    /\ a_in.source_file = P(<<"foo", "bar">>)
    /\ Declared = Abs(<<"baz">>) \o SEP
    /\ Built = W("baz")

----------------------------------------------------------------------------
(* get_arch *)

\* The (arch, abi) pairs the match of get_arch renames
Renamed(arch, abi) ==
    \/ arch \in { W("aarch64"), W("mipsisa32r6"), W("mipsisa32r6el"), W("powerpc64"),
                  W("powerpc64le"), W("i586"), W("i686"), W("x86"), W("x86_64") }
    \/ arch \in {W("mips64"), W("mips64el")} /\ abi = W("gnuabin32")
    \/ arch \in {W("mipsisa64r6"), W("mipsisa64r6el")} /\ abi \in {W("gnuabi64"), W("gnuabin32")}
    \/ arch = W("powerpc") /\ abi = W("gnuspe")
    \/ StrStartsWith(arch, W("arm"))

\* C9: get_arch never fails; aarch64 gives arm64; x86_64 gives amd64, or x32
\* when the last component is gnux32; an arch that starts with "arm" gives
\* armhf when the last component ends in "hf" and armel otherwise; an arch
\* the table does not rename is returned as it is.  The last component is
\* the last dash-separated part after the arch, empty when there is none
C9_ArchMapping ==
    g_out.status # "idle" =>
      /\ g_out.status = "ok"
      /\ \A arch \in ArchNames, middle \in Middles,
            abi \in {None} \cup {Some(b) : b \in AbiNames} :
           g_target = TargetString(arch, middle, abi) =>
             LET rest == middle \o abi
                 last == IF rest = <<>> THEN <<>> ELSE Last(rest)
                 tag  == Unwrap(g_out.value)
             IN  /\ arch = W("aarch64") => tag = W("arm64")
                 /\ arch = W("x86_64") =>
                      tag = (IF last = W("gnux32") THEN W("x32") ELSE W("amd64"))
                 /\ StrStartsWith(arch, W("arm")) =>
                      tag = (IF EndsWith(last, W("hf")) THEN W("armhf") ELSE W("armel"))
                 /\ ~Renamed(arch, last) => tag = arch

\* armv7-unknown-linux-gnueabihf gives armhf
C9_Witness ==
    /\ g_target = TargetString(<<"arm", "v7">>, <<W("unknown"), W("linux")>>,
                               Some(<<"gnueabi", "hf">>))
    /\ g_out.status = "ok"
    /\ Unwrap(g_out.value) = W("armhf")

----------------------------------------------------------------------------
(* take_assets: what each declared rule yields *)

DeclaredRules == Unwrap(cargo.deb.assets)

\* The assets that rule i added to the list
RuleAssets(i) ==
    SubSeq(taken.assets, (IF i = 1 THEN 0 ELSE taken.marks[i - 1]) + 1, taken.marks[i])

\* The source of rule i once target/release is replaced by the build directory
ResolvedSource(i) == RewriteSource(OptionsOf(cargo), DeclaredRules[i][1])

\* The matches of rule i that are not directories, in the order glob yields them
FileMatches(i) == SelectSeq(Glob(fs, ResolvedSource(i)), LAMBDA path : ~IsDir(fs, path))

\* A destination without its leading separator
Relative(p) == IF IsAbsolute(p) THEN Tail(p) ELSE p

\* C6 (amended): a rule whose source is literal yields one asset when the
\* source exists and is not a directory, and none otherwise.  The declared
\* destination is handed to Asset::new as it is: the asset's destination is
\* what Asset::new makes of it, the declared text itself when that is
\* relative and does not end in a separator
C6_LiteralRule ==
    taken.status # "idle" =>
      /\ taken.status = "ok"
      /\ \A i \in 1..Len(DeclaredRules) :
           ~is_glob_pattern(DeclaredRules[i][1]) =>
             LET src == ResolvedSource(i)
                 dst == DeclaredRules[i][2]
                 got == RuleAssets(i)
             IN  /\ Len(got) = (IF src \in fs.files THEN 1 ELSE 0)
                 /\ Len(got) = 1 =>
                      /\ got[1] = Unwrap(AssetNew(src, dst, Mode755))
                      /\ ~IsAbsolute(dst) /\ ~EndsWith(dst, SEP) => got[1].target_path = dst

\* The rule lib/a -> /usr/lib with lib/a a file yields lib/a -> usr/lib
C6_Witness ==
    /\ taken.status = "ok"
    /\ DeclaredRules[1][1] = P(<<"lib", "a">>)
    /\ DeclaredRules[1][2] = Abs(<<"usr", "lib">>)
    /\ RuleAssets(1) = <<Asset(P(<<"lib", "a">>), P(<<"usr", "lib">>), Mode755)>>

\* C6 as stated: a rule whose source is literal yields exactly one asset,
\* whose destination is the declared destination verbatim, whatever the file
\* system holds and whatever the declared destination is
C6_ExactlyOneVerbatim ==
    taken.status # "idle" =>
      \A i \in 1..Len(DeclaredRules) :
         ~is_glob_pattern(DeclaredRules[i][1]) =>
           /\ taken.status = "ok"
           /\ Len(RuleAssets(i)) = 1
           /\ RuleAssets(i)[1].target_path = DeclaredRules[i][2]

----------------------------------------------------------------------------
(* to_config: what makes it fail and what it returns *)

Synthesized == result.status # "idle"

\* The fatal conditions, as the manifest and the file system show them
BadLineCount ==
    /\ IsSome(cargo.deb.license_file)
    /\ Len(Unwrap(cargo.deb.license_file)) >= 2
    /\ IsNone(ParseUnsigned(Unwrap(cargo.deb.license_file)[2], 10))

NoCopyright == IsNone(cargo.deb.copyright) /\ IsNone(cargo.authors)

NoMaintainer ==
    IsNone(cargo.deb.maintainer) /\ (IsNone(cargo.authors) \/ Unwrap(cargo.authors) = <<>>)

UnreadableReadme ==
    /\ IsNone(cargo.deb.extended_description)
    /\ IsSome(cargo.readme)
    /\ Unwrap(cargo.readme) \notin fs.files

BadRule ==
    /\ IsSome(cargo.deb.assets)
    /\ \E i \in 1..Len(Unwrap(cargo.deb.assets)) :
         LET v == Unwrap(cargo.deb.assets)[i]
         IN  Len(v) < 3 \/ IsNone(ParseUnsigned(v[3], 8))

BadScalars == BadLineCount \/ NoCopyright \/ UnreadableReadme \/ NoMaintainer

\* What take_assets yields for the manifest; defined when ~BadScalars
Produced ==
    take_assets(cargo.name, OptionsOf(cargo), fs, cargo.deb.assets, cargo.targets,
                cargo.readme)

CopyrightAsset ==
    Asset(Abs(<<"ws", "target">>) \o (IF IsSome(cargo.target) THEN SEP \o Unwrap(cargo.target)
                                      ELSE <<>>) \o SEP \o P(<<"debian", "copyright">>),
          P(<<"usr", "share", "doc">>) \o SEP \o cargo.name \o SEP \o W("copyright"),
          Mode644)

ChangelogAssets ==
    IF IsSome(cargo.deb.changelog)
    THEN <<Asset(Unwrap(cargo.deb.changelog),
                 P(<<"usr", "share", "doc">>) \o SEP \o cargo.name \o SEP \o W("changelog"),
                 Mode644)>>
    ELSE <<>>

\* C3: once the scalar fields are derived and the rules are well formed,
\* to_config fails with the "package is empty" error exactly when the list
\* that rule expansion or implied-asset synthesis yields is empty, a declared
\* changelog notwithstanding; a successful Config holds that list, not empty,
\* followed by the copyright asset and the changelog asset if one is declared
C3_EmptyBeforeAppend ==
    Synthesized =>
      /\ (result.status = "err" /\ result.err = ErrEmpty)
            <=> (~BadScalars /\ Produced.status = "ok" /\ Produced.assets = <<>>)
      /\ result.status = "ok" =>
            /\ Produced.assets # <<>>
            /\ Unwrap(result.config).assets
                 = Produced.assets \o <<CopyrightAsset>> \o ChangelogAssets
            /\ Unwrap(result.config).assets[1] \notin {CopyrightAsset} \cup Range(ChangelogAssets)

\* An empty rule list with a changelog declared: the package is empty
C3_Witness ==
    /\ cargo.deb.assets = Some(<<>>)
    /\ IsSome(cargo.deb.changelog)
    /\ result.status = "err"
    /\ result.err = ErrEmpty

\* C8: to_config fails when there is neither a copyright override nor an
\* author list, and when there is neither a maintainer override nor a first
\* author; otherwise the copyright is the override, else the authors joined
\* with ", ", and the maintainer is the override, else the first author; with
\* both overrides it never fails for lack of authors
C8_AuthorFallbacks ==
    Synthesized =>
      /\ NoCopyright => result.status = "err"
      /\ NoCopyright /\ ~BadLineCount => result.err = ErrCopyright
      /\ NoMaintainer => result.status = "err"
      /\ NoMaintainer /\ ~BadLineCount /\ ~NoCopyright /\ ~UnreadableReadme
            => result.err = ErrMaintainer
      /\ result.status = "ok" =>
            /\ Unwrap(result.config).copyright =
                  (IF IsSome(cargo.deb.copyright) THEN Unwrap(cargo.deb.copyright)
                   ELSE JoinWith(Unwrap(cargo.authors), <<",", " ">>))
            /\ Unwrap(result.config).maintainer =
                  (IF IsSome(cargo.deb.maintainer) THEN Unwrap(cargo.deb.maintainer)
                   ELSE Unwrap(cargo.authors)[1])
      /\ IsSome(cargo.deb.copyright) /\ IsSome(cargo.deb.maintainer)
            => result.err \notin {ErrCopyright, ErrMaintainer}

\* An empty author list and no maintainer override: no maintainer
C8_Witness ==
    /\ cargo.authors = Some(<<>>)
    /\ IsNone(cargo.deb.maintainer)
    /\ result.status = "err"
    /\ result.err = ErrMaintainer

\* C10: each fatal condition (a line count that is no number, no copyright
\* or maintainer to fall back on, a readme that is needed and cannot be read,
\* a rule with a missing field or a mode that is not octal, an empty list of
\* assets) makes to_config return an error, with no Config and no warnings;
\* without any of them it returns a Config together with the advisory
\* warnings, which never make it fail
C10_FatalOrAdvisory ==
    Synthesized =>
      /\ result.status \in {"ok", "err"}
      /\ result.status = "err" <=> (BadScalars \/ BadRule \/ Produced.assets = <<>>)
      /\ result.status = "err" => IsNone(result.config) /\ result.warnings = <<>>
      /\ result.status = "ok" =>
            /\ IsSome(result.config)
            /\ result.warnings = check_config(cargo, fs, cargo.readme, cargo.deb)
            /\ IsNone(cargo.description) <=> WarnDescription \in Range(result.warnings)
            /\ IsNone(cargo.license) <=> WarnLicense \in Range(result.warnings)

\* The mode "75a" in a manifest that has no description: an error, no
\* Config, no warning
C10_Witness ==
    /\ IsNone(cargo.description)
    /\ cargo.deb.assets = Some(<<AppRule, BadModeRule>>)
    /\ result.status = "err"
    /\ result.err = W("unable to parse chmod argument")
    /\ IsNone(result.config)
    /\ result.warnings = <<>>

----------------------------------------------------------------------------
(* get_dependencies: the resolver calls and the string returned *)

Aggregated == deps.status # "idle"

\* The trimmed words of the directive
Words ==
    LET raw == Split(Unwrap(config).depends, ",") IN [i \in 1..Len(raw) |-> Trim(raw[i])]

AutoCount == Cardinality({i \in 1..Len(Words) : Words[i] = Auto})

\* The binary-classified assets of the Config
Binaries == Unwrap(binaries(Unwrap(config)))

RECURSIVE Repeat(_, _)
Repeat(seq, n) == IF n = 0 THEN <<>> ELSE seq \o Repeat(seq, n - 1)

\* The names the returned string lists, in its order
OutTokens ==
    LET raw == Split(deps.out, ",") IN [i \in 1..Len(raw) |-> Trim(raw[i])]

LiteralTokens == {Words[i] : i \in {j \in 1..Len(Words) : Words[j] # Auto}}

ResolvedNames ==
    IF AutoCount = 0 THEN {}
    ELSE UNION {Range(Unwrap(resolver[b])) : b \in {c \in Range(Binaries) : IsSome(resolver[c])}}

\* C4: for each "$auto" of the directive the resolver is called once for
\* every binary-classified asset, in order, whatever the other calls
\* returned; a binary whose call fails is warned about and adds no name, the
\* names of every binary whose call succeeds are in the result, and
\* get_dependencies returns Ok
C4_FailSoft ==
    Aggregated =>
      /\ deps.status = "ok"
      /\ deps.calls = Repeat(Binaries, AutoCount)
      /\ deps.warned = Repeat(SelectSeq(Binaries, LAMBDA b : IsNone(resolver[b])), AutoCount)
      /\ AutoCount > 0 =>
            \A b \in Range(Binaries) :
               IsSome(resolver[b]) => Range(Unwrap(resolver[b])) \subseteq Range(OutTokens)
      /\ \A i \in 1..Len(OutTokens) :
            OutTokens[i] \in LiteralTokens \cup ResolvedNames \cup {<<>>}

\* "$auto", two binaries, the resolver fails for the first: both are asked,
\* and the names of the second are returned
C4_Witness ==
    /\ Aggregated
    /\ AutoCount = 1
    /\ Len(Binaries) = 2
    /\ IsNone(resolver[Binaries[1]])
    /\ resolver[Binaries[2]] = Some(<<W("libc6")>>)
    /\ deps.calls = Binaries
    /\ deps.out = W("libc6")

\* C5: the names the result lists are the trimmed literal words of the
\* directive together with the names of every successful resolver call, each
\* listed once; the result is the empty string when there is no name
C5_UnionOnce ==
    Aggregated /\ deps.status = "ok" =>
      LET expected == LiteralTokens \cup ResolvedNames
      IN  IF expected = {} THEN deps.out = <<>>
          ELSE /\ Range(OutTokens) = expected
               /\ Len(OutTokens) = Cardinality(expected)

\* "libc6, $auto" with a binary for which libfoo, libc6, libfoo are
\* resolved: libc6 and libfoo, once each
C5_Witness ==
    /\ Aggregated
    /\ Unwrap(config).depends = <<"libc6", ",", " ", "$auto">>
    /\ Len(Binaries) = 1
    /\ resolver[Binaries[1]] = Some(<<W("libfoo"), W("libc6"), W("libfoo")>>)
    /\ deps.out = <<"libc6", ",", " ", "libfoo">>

----------------------------------------------------------------------------
(* binaries: the implied assets of the executable targets *)

\* The assets take_assets implies for the executable targets of the manifest
ImpliedBinaries == BinAssets(Unwrap(config), SelectSeq(cargo.targets, IsBinTarget))

\* C11: in a Config synthesized without asset rules, with or without a
\* target triple, the source of every implied asset of an executable target
\* is among the binaries Config::binaries lists, and is passed to the
\* resolver when the directive holds "$auto"
C11_ImpliedBinariesResolved ==
    IsSome(config) /\ IsNone(cargo.deb.assets) =>
      /\ IsSome(binaries(Unwrap(config)))
      /\ \A i \in 1..Len(ImpliedBinaries) :
           /\ ImpliedBinaries[i] \in Range(Unwrap(config).assets)
           /\ ImpliedBinaries[i].source_file \in Range(Binaries)
           /\ Aggregated /\ AutoCount > 0 =>
                ImpliedBinaries[i].source_file \in Range(deps.calls)

\* "$auto" with the target armv7-unknown-linux-gnueabihf and the executable
\* target app: the asset /ws/target/<triple>/release/app -> usr/bin/app is in
\* the Config, binaries lists nothing and the resolver is never called
C11_Witness ==
    /\ IsSome(config)
    /\ IsNone(cargo.deb.assets)
    /\ cargo.target = Some(Triple)
    /\ Unwrap(config).depends = Auto
    /\ ImpliedBinaries =
          <<Asset(Abs(<<"ws", "target">>) \o SEP \o Triple \o SEP \o P(<<"release", "app">>),
                  P(<<"usr", "bin", "app">>), Mode755)>>
    /\ ImpliedBinaries[1] \in Range(Unwrap(config).assets)
    /\ Binaries = <<>>
    /\ Aggregated
    /\ deps.calls = <<>>
    /\ deps.out = <<>>

----------------------------------------------------------------------------
(* to_config: the order of the asset list *)

\* The assets of the declared rules alone, and those implied alone
Expanded == ExpandRules(OptionsOf(cargo), fs, Unwrap(cargo.deb.assets), <<>>, <<>>).assets

Implied == ImpliedAssets(cargo.name, OptionsOf(cargo), cargo.targets, cargo.readme)

DocFile(file) == P(<<"usr", "share", "doc">>) \o SEP \o cargo.name \o SEP \o W(file)

\* C12: the asset list of a Config that to_config returns is, in order: the
\* assets of rule expansion when the manifest declares a rule list, even an
\* empty one, or the implied assets when it declares none, and nothing of the
\* other; then one copyright asset, usr/share/doc/<name>/copyright with mode
\* 644; then, exactly when a changelog is declared, one changelog asset,
\* usr/share/doc/<name>/changelog with mode 644, the last of the list
C12_AssetOrder ==
    result.status = "ok" =>
      LET assets == Unwrap(result.config).assets
          head   == IF IsSome(cargo.deb.assets) THEN Expanded ELSE Implied
          n      == Len(head)
      IN  /\ n >= 1
          /\ Len(assets) = n + 1 + (IF IsSome(cargo.deb.changelog) THEN 1 ELSE 0)
          /\ SubSeq(assets, 1, n) = head
          /\ assets[n + 1].target_path = DocFile("copyright")
          /\ assets[n + 1].chmod = Mode644
          /\ IsSome(cargo.deb.changelog) =>
                /\ Last(assets).source_file = Unwrap(cargo.deb.changelog)
                /\ Last(assets).target_path = DocFile("changelog")
                /\ Last(assets).chmod = Mode644
          /\ \A i \in 1..Len(assets) :
                (assets[i].target_path = DocFile("changelog") /\ i > n)
                   => (IsSome(cargo.deb.changelog) /\ i = Len(assets))

\* The rule target/release/app -> usr/bin/ in a manifest that has executable
\* targets, a readme and a changelog: the asset of the rule, the copyright,
\* the changelog, and no implied asset
C12_Witness ==
    /\ result.status = "ok"
    /\ cargo.deb.assets = Some(<<AppRule>>)
    /\ cargo.deb.changelog = Some(W("CHANGES"))
    /\ cargo.readme = Some(ReadmeMd)
    /\ Len(Implied) = 2
    /\ Unwrap(result.config).assets =
          << Asset(Abs(<<"ws", "target", "release", "app">>), P(<<"usr", "bin", "app">>), Mode755),
             Asset(Abs(<<"ws", "target", "debian", "copyright">>), DocFile("copyright"), Mode644),
             Asset(W("CHANGES"), DocFile("changelog"), Mode644) >>

====
